---------------------------- MODULE Spec2Model ----------------------------
(***************************************************************************)
(* State-machine model of etl_tire_to_mongo.py: one pipeline run is        *)
(* main() = fetch_html -> extract_first_table -> normalize_cols ->         *)
(* map_columns -> parse_dates -> drop_duplicates -> upsert_mongo, executed *)
(* by a process started by an external scheduler.  The target collection   *)
(* and its indexes are shared by all runs.                                 *)
(***************************************************************************)
EXTENDS Integers, Sequences, FiniteSets, TLC

(***************************************************************************)
(* Bounds of the model.                                                    *)
(***************************************************************************)
\* longest source table (data rows of the exported HTML table)
MaxRows == 3
\* largest BATCH_SIZE value drawn for the environment variable
MaxBatch == 2
\* number of pipeline runs the scheduler starts
MaxRuns == 2
\* longest source table when two runs overlap (SpecConc)
MaxRowsConc == 2

AllProcs == {1, 2}

(***************************************************************************)
(* Values.  NaN / None / NaT are the missing values of pandas; pd.isna is  *)
(* true exactly of them.                                                   *)
(***************************************************************************)
NaN == "<NaN>"
None == "<None>"
NaT == [y |-> 0, m |-> 0, d |-> 0]

\* pd.isna(x) for a cell of a text column and of a datetime column
isna(x) == x \in {NaN, None}
isnat(x) == x = NaT

(***************************************************************************)
(* The source export.  Headers are written in their normalized form; the   *)
(* Thai headers are transliterated:                                        *)
(*   "yanphahana"  = the vehicle header,                                   *)
(*   "chaeng_som_/_kho_plian_yang" = the repair-request header,            *)
(*   "plian_khao"  = the entry-date header,  "sinkha" = the product header *)
(***************************************************************************)
H_vehicle == "yanphahana"
H_receipt == "chaeng_som_/_kho_plian_yang"
H_entry == "plian_khao"
H_sku == "sinkha"
AllHeaders == {H_vehicle, H_receipt, H_entry, H_sku}

\* header sets of the exported table: the full export, one without the
\* repair-request column, one without the vehicle column
HeaderSets == {AllHeaders, AllHeaders \ {H_receipt}, AllHeaders \ {H_vehicle}}

\* the text of a cell, by column
CellTexts(h) ==
    CASE h = H_vehicle -> {"T1"}
      [] h = H_receipt -> {"", "R1", "R2"}
      [] h = H_entry -> {"01/02/2024", "02/01/2024", "31/02/2024"}
      [] h = H_sku -> {"a", "b"}

BaseRow == [h \in AllHeaders |->
              CASE h = H_vehicle -> "T1"
                [] h = H_receipt -> "R1"
                [] h = H_entry -> "01/02/2024"
                [] h = H_sku -> "a"]

\* rows of the export: the base row with at most one cell changed
RawRows ==
    {r \in [AllHeaders -> UNION {CellTexts(h) : h \in AllHeaders}] :
        /\ \A h \in AllHeaders : r[h] \in CellTexts(h)
        /\ Cardinality({h \in AllHeaders : r[h] # BaseRow[h]}) <= 1}

RECURSIVE SeqsUpTo(_, _)
SeqsUpTo(S, n) ==
    IF n = 0 THEN {<<>>}
    ELSE LET shorter == SeqsUpTo(S, n - 1)
         IN  shorter \cup {Append(s, x) : s \in {t \in shorter : Len(t) = n - 1}, x \in S}

(***************************************************************************)
(* CONFIG FROM ENV                                                         *)
(***************************************************************************)
EnvValues == {None, "", "set"}
\* bool(x) of an os.getenv result
Truthy(x) == x \notin {None, ""}
EnvNames == {"TIRE_EXPORT_URL", "MENA_SESSION", "MONGO_URI"}
\* environments with at most one of the three inputs absent or empty
Envs == {e \in [EnvNames -> EnvValues] :
            Cardinality({n \in EnvNames : ~Truthy(e[n])}) <= 1}

DB_NAME == "atms"
COLLECTION_NAME == "tire"

VARIABLES
    env,         \* os.environ: TIRE_EXPORT_URL, MENA_SESSION, MONGO_URI
    batchSize,   \* BATCH_SIZE
    headers,     \* header cells of the table the source serves
    source,      \* data rows of the table the source serves
    procs,       \* the process slots the scheduler uses
    runs,        \* runs started so far; also the wall clock read by utcnow
    requests,    \* HTTP GET requests issued so far
    collection,  \* atms.tire: sequence of documents in natural order
    indexes,     \* indexes of atms.tire
    snap,        \* collection (without etl_loaded_at) after the first successful run
    pc,          \* position of each process
    resp,        \* r: the HTTP response received
    fetched,     \* df as it is before drop_duplicates
    df,          \* df handed to upsert_mongo
    cursor,      \* next row of df.iterrows()
    ops,         \* ops: the batch being built or written
    cnt,         \* total_rows, skipped, sent_ops, matched, modified, upserted
    client,      \* MongoClient: "none", "open", "closed"
    bw,          \* progress of the bulk_write in flight
    sentLog,     \* batches handed to bulk_write in this run
    dropLog,     \* records dropped by the key validation in this run
    out          \* what the process printed, and its exit code

config == <<env, batchSize, headers, source, procs>>
store == <<collection, indexes>>
frame == <<fetched, df>>
loop == <<cursor, ops, cnt, bw, sentLog, dropLog>>
vars == <<config, runs, requests, store, snap, pc, resp, frame, loop, client, out>>


(***************************************************************************)
(* HELPERS                                                                 *)
(***************************************************************************)
\* datetime.now(timezone.utc): the clock advances when a run starts
utcnow == runs

\* a data frame: its column labels and its rows, each a record over them
Frame(columns, rows) == [columns |-> columns, rows |-> rows]

\* "rename only columns that exist"; unmapped headers pass through
colmap ==
    (H_vehicle :> "vehicle") @@ (H_receipt :> "receipt_no") @@
    (H_entry :> "garage_entry_at") @@ (H_sku :> "sku_name")

RenameCol(c) == IF c \in DOMAIN colmap THEN colmap[c] ELSE c

map_columns(f) ==
    LET renamed == {RenameCol(c) : c \in f.columns}
        old(n) == CHOOSE c \in f.columns : RenameCol(c) = n
        rrows == [i \in DOMAIN f.rows |-> [n \in renamed |-> f.rows[i][old(n)]]]
    IN  IF "truck_no" \in renamed
        THEN Frame(renamed, rrows)
        ELSE Frame(renamed \cup {"truck_no"},
                   [i \in DOMAIN rrows |->
                      [n \in renamed \cup {"truck_no"} |->
                         IF n # "truck_no" THEN rrows[i][n]
                         ELSE IF "vehicle" \in renamed THEN rrows[i]["vehicle"]
                         ELSE None]])

\* the numbers of a date text, in the order they are written
DateTokens ==
    ("01/02/2024" :> <<1, 2, 2024>>) @@ ("02/01/2024" :> <<2, 1, 2024>>) @@
    ("31/02/2024" :> <<31, 2, 2024>>)

IsLeap(y) == (y % 4 = 0 /\ y % 100 # 0) \/ y % 400 = 0

DaysInMonth(m, y) ==
    IF m = 2 THEN (IF IsLeap(y) THEN 29 ELSE 28)
    ELSE IF m \in {4, 6, 9, 11} THEN 30 ELSE 31

\* pd.to_datetime(x, errors="coerce", dayfirst=True) of one cell
to_datetime(x) ==
    IF x \notin DOMAIN DateTokens THEN NaT
    ELSE LET t == DateTokens[x]
         IN  IF t[2] \in 1..12 /\ t[1] \in 1..DaysInMonth(t[2], t[3])
             THEN [y |-> t[3], m |-> t[2], d |-> t[1]]
             ELSE NaT

DateCols == {"garage_entry_at", "garage_exit_at", "updated_at"}

parse_dates(f) ==
    Frame(f.columns,
          [i \in DOMAIN f.rows |->
             [c \in f.columns |->
                IF c \in DateCols THEN to_datetime(f.rows[i][c]) ELSE f.rows[i][c]]])

(***************************************************************************)
(* PARSE TABLE                                                             *)
(***************************************************************************)
\* cell texts pd.read_html reads as missing (keep_default_na)
NaTexts == {"", "NA", "NaN", "null"}

\* rows whose index is in S, in order
RECURSIVE TakeRows(_, _, _)
TakeRows(rows, S, i) ==
    IF i > Len(rows) THEN <<>>
    ELSE (IF i \in S THEN <<rows[i]>> ELSE <<>>) \o TakeRows(rows, S, i + 1)

extract_first_table(hdrs, raw) ==
    LET cells == [i \in DOMAIN raw |->
                    [h \in hdrs |-> IF raw[i][h] \in NaTexts THEN NaN ELSE raw[i][h]]]
        \* df.dropna(how="all")
        kept == {i \in DOMAIN cells : \E h \in hdrs : cells[i][h] # NaN}
    IN  Frame(hdrs, TakeRows(cells, kept, 1))

(***************************************************************************)
(* The composite key and drop_duplicates(subset=key, keep="last")          *)
(***************************************************************************)
must_cols == {"receipt_no", "truck_no", "garage_entry_at"}

KeyOf(r) == [c \in must_cols |-> r[c]]

\* DataFrame.duplicated(keep="first"): the mask of rows seen before
RECURSIVE DuplicatedFirst(_, _, _)
DuplicatedFirst(rows, i, seen) ==
    IF i > Len(rows) THEN {}
    ELSE (IF KeyOf(rows[i]) \in seen THEN {i} ELSE {})
         \cup DuplicatedFirst(rows, i + 1, seen \cup {KeyOf(rows[i])})

\* DataFrame.duplicated(keep="last"): the same scan from the last row
RECURSIVE DuplicatedLast(_, _, _)
DuplicatedLast(rows, i, seen) ==
    IF i < 1 THEN {}
    ELSE (IF KeyOf(rows[i]) \in seen THEN {i} ELSE {})
         \cup DuplicatedLast(rows, i - 1, seen \cup {KeyOf(rows[i])})

DropDuplicatesFirst(f) ==
    Frame(f.columns,
          TakeRows(f.rows, DOMAIN f.rows \ DuplicatedFirst(f.rows, 1, {}), 1))

drop_duplicates(f) ==
    Frame(f.columns,
          TakeRows(f.rows, DOMAIN f.rows \ DuplicatedLast(f.rows, Len(f.rows), {}), 1))

(***************************************************************************)
(* Process-local state at the start of a run                                *)
(***************************************************************************)
NoResp == [status |-> -1, body |-> {}]
NoFrame == Frame({}, <<>>)
ZeroCnt == [total_rows |-> 0, skipped |-> 0, sent_ops |-> 0,
            matched |-> 0, modified |-> 0, upserted |-> 0]
NoBulk == [i |-> 0, found |-> 0, phase |-> "none", final |-> FALSE,
           matched |-> 0, modified |-> 0, upserted |-> 0]
NoResult == [printed |-> FALSE]
NoOut == [rows_fetched |-> -1, result |-> NoResult, failed |-> "", exit |-> -1]
NoSnap == [taken |-> FALSE, run |-> 0, docs |-> <<>>]

\* the except-branch of __main__: print the message, sys.exit(1)
Failed(o, msg) == [o EXCEPT !.failed = msg, !.exit = 1]

(***************************************************************************)
(* FETCH HTML                                                              *)
(***************************************************************************)
Statuses == {200, 500}
Markers == {"login", "phpsessid", "password", "table"}
\* a connection error or timeout: session.get raises, there is no response
NetErr == [status |-> 0, body |-> {}]
\* the words of Markers a page holds: the export page, an empty page, and
\* pages with one or two of the login-page words
Bodies == {{"table"}, {}, {"login"}, {"password"}, {"phpsessid"},
           {"phpsessid", "password"}}
Responses == {[status |-> st, body |-> b] : st \in Statuses, b \in Bodies}
               \cup {NetErr}

\* "login" in low or "phpsessid" in low and "password" in low
LoginGuard(body) ==
    "login" \in body \/ ("phpsessid" \in body /\ "password" \in body)

\* fetch_html after the response arrived: the error raised, "" for none
fetch_html_error(r) ==
    IF r = NetErr THEN "transport"
    ELSE IF r.status >= 400 THEN "http_status"
    ELSE IF LoginGuard(r.body) THEN "session_expired"
    ELSE ""

(***************************************************************************)
(* MONGO: the store's side of create_index and bulk_write                  *)
(***************************************************************************)
\* col.create_index([...], name="uniq_tire_composite", background=True):
\* no unique=True is passed, so the index is an ordinary one
CompositeIndex ==
    [name |-> "uniq_tire_composite", keys |-> must_cols, unique |-> FALSE]

Matches(doc, filter) ==
    \A f \in DOMAIN filter : f \in DOMAIN doc /\ doc[f] = filter[f]

MatchSet(coll, filter) == {j \in DOMAIN coll : Matches(coll[j], filter)}

WithId(rec, id) ==
    [f \in DOMAIN rec \cup {"_id"} |-> IF f = "_id" THEN id ELSE rec[f]]

\* an insert the unique indexes of the collection reject
DuplicateKey(coll, idx, rec) ==
    \E ix \in idx : ix.unique /\
       \E j \in DOMAIN coll :
          \A c \in ix.keys : c \in DOMAIN coll[j] /\ c \in DOMAIN rec /\ coll[j][c] = rec[c]

Strip(doc) == [f \in DOMAIN doc \ {"etl_loaded_at"} |-> doc[f]]
StripAll(coll) == [j \in DOMAIN coll |-> Strip(coll[j])]

(***************************************************************************)
(* MONGO UPSERT (ReplaceOne) - BATCHED: the client's side                  *)
(***************************************************************************)
\* key validation of upsert_mongo, as a bug would have it: one field unchecked
KeyMissingNoDate(record) ==
    isna(record["receipt_no"]) \/ isna(record["truck_no"])

\* pd.isna(receipt_no) or pd.isna(truck_no) or pd.isna(garage_entry_at)
KeyMissing(record) ==
    isna(record["receipt_no"]) \/ isna(record["truck_no"])
        \/ isnat(record["garage_entry_at"])

\* record["etl_loaded_at"] = utcnow()
Stamped(record) ==
    [f \in DOMAIN record \cup {"etl_loaded_at"} |->
        IF f = "etl_loaded_at" THEN utcnow ELSE record[f]]

\* the operation as a bug would have it: filtered by the whole record
ReplaceOneWholeRecord(record) ==
    [filter |-> record, replacement |-> record, upsert |-> TRUE]

\* ReplaceOne({receipt_no, truck_no, garage_entry_at}, record, upsert=True)
ReplaceOne(record) ==
    [filter |-> KeyOf(record), replacement |-> record, upsert |-> TRUE]

\* the flush test as a bug would have it
BatchFullOffByOne(o) == Len(o) > batchSize

\* len(ops) >= BATCH_SIZE
BatchFull(o) == Len(o) >= batchSize

\* the for-loop of upsert_mongo from row i up to the next flush or the end
RECURSIVE ScanRows(_, _, _, _, _)
ScanRows(rows, i, o, skipped, dropped) ==
    IF i > Len(rows)
    THEN [cursor |-> i, ops |-> o, skipped |-> skipped, dropped |-> dropped,
          flush |-> FALSE]
    ELSE IF KeyMissing(rows[i])
    THEN ScanRows(rows, i + 1, o, skipped + 1, Append(dropped, rows[i]))
    ELSE LET o2 == Append(o, ReplaceOne(Stamped(rows[i])))
         IN  IF BatchFull(o2)
             THEN [cursor |-> i + 1, ops |-> o2, skipped |-> skipped,
                   dropped |-> dropped, flush |-> TRUE]
             ELSE ScanRows(rows, i + 1, o2, skipped, dropped)

(***************************************************************************)
(* MAIN                                                                    *)
(***************************************************************************)
\* the check of main as a bug would have it: MONGO_URI left to upsert_mongo
ConfigOKNoMongo == Truthy(env["TIRE_EXPORT_URL"]) /\ Truthy(env["MENA_SESSION"])

\* all([URL, PHPSESSID, MONGO_URI])
ConfigOK == \A n \in EnvNames : Truthy(env[n])

Terminal == {"done", "failed"}

Tables(n) == SeqsUpTo(RawRows, n)

InitWith(P, n) ==
    /\ env \in Envs
    /\ batchSize \in 1..MaxBatch
    /\ headers \in HeaderSets
    /\ source \in Tables(n)
    /\ procs = P
    /\ runs = 0
    /\ requests = 0
    /\ collection = <<>>
    /\ indexes = {}
    /\ snap = NoSnap
    /\ pc = [p \in AllProcs |-> "idle"]
    /\ resp = [p \in AllProcs |-> NoResp]
    /\ fetched = [p \in AllProcs |-> NoFrame]
    /\ df = [p \in AllProcs |-> NoFrame]
    /\ cursor = [p \in AllProcs |-> 1]
    /\ ops = [p \in AllProcs |-> <<>>]
    /\ cnt = [p \in AllProcs |-> ZeroCnt]
    /\ client = [p \in AllProcs |-> "none"]
    /\ bw = [p \in AllProcs |-> NoBulk]
    /\ sentLog = [p \in AllProcs |-> <<>>]
    /\ dropLog = [p \in AllProcs |-> <<>>]
    /\ out = [p \in AllProcs |-> NoOut]

\* one process slot: the runs follow each other
Init == InitWith({1}, MaxRows)

\* two process slots: the runs may overlap
InitConc == InitWith(AllProcs, MaxRowsConc)

\* the scheduler starts a run: __main__ calls main(), which checks the
\* environment before anything else
Main(p) ==
    /\ pc[p] \in {"idle"} \cup Terminal
    /\ runs < MaxRuns
    /\ runs' = runs + 1
    /\ resp' = [resp EXCEPT ![p] = NoResp]
    /\ fetched' = [fetched EXCEPT ![p] = NoFrame]
    /\ df' = [df EXCEPT ![p] = NoFrame]
    /\ cursor' = [cursor EXCEPT ![p] = 1]
    /\ ops' = [ops EXCEPT ![p] = <<>>]
    /\ cnt' = [cnt EXCEPT ![p] = ZeroCnt]
    /\ client' = [client EXCEPT ![p] = "none"]
    /\ bw' = [bw EXCEPT ![p] = NoBulk]
    /\ sentLog' = [sentLog EXCEPT ![p] = <<>>]
    /\ dropLog' = [dropLog EXCEPT ![p] = <<>>]
    /\ IF ConfigOK
       THEN /\ pc' = [pc EXCEPT ![p] = "fetch"]
            /\ out' = [out EXCEPT ![p] = NoOut]
       ELSE /\ pc' = [pc EXCEPT ![p] = "failed"]
            /\ out' = [out EXCEPT ![p] = Failed(NoOut, "config")]
    /\ UNCHANGED <<config, requests, store, snap>>

\* fetch_html: the request goes out, a response (or none) comes back, then
\* raise_for_status and the login-page guard
FetchHtml(p) ==
    /\ pc[p] = "fetch"
    /\ IF Truthy(env["TIRE_EXPORT_URL"]) /\ Truthy(env["MENA_SESSION"])
       THEN /\ requests' = requests + 1
            /\ \E r \in Responses :
                  /\ resp' = [resp EXCEPT ![p] = r]
                  /\ IF fetch_html_error(r) = ""
                     THEN /\ pc' = [pc EXCEPT ![p] = "parse"]
                          /\ out' = out
                     ELSE /\ pc' = [pc EXCEPT ![p] = "failed"]
                          /\ out' = [out EXCEPT ![p] = Failed(@, fetch_html_error(r))]
       ELSE /\ pc' = [pc EXCEPT ![p] = "failed"]
            /\ out' = [out EXCEPT ![p] = Failed(@, "config")]
            /\ UNCHANGED <<requests, resp>>
    /\ UNCHANGED <<config, runs, store, snap, frame, loop, client>>

\* main from extract_first_table to drop_duplicates
Transform(p) ==
    /\ pc[p] = "parse"
    /\ IF "table" \notin resp[p].body
       THEN /\ pc' = [pc EXCEPT ![p] = "failed"]
            /\ out' = [out EXCEPT ![p] = Failed(@, "no_table")]
            /\ UNCHANGED frame
       ELSE LET f0 == extract_first_table(headers, source)
                f == parse_dates(map_columns(f0))
                o == [out[p] EXCEPT !.rows_fetched = Len(f0.rows)]
            IN  IF must_cols \subseteq f.columns
                THEN /\ fetched' = [fetched EXCEPT ![p] = f]
                     /\ df' = [df EXCEPT ![p] = drop_duplicates(f)]
                     /\ out' = [out EXCEPT ![p] = o]
                     /\ pc' = [pc EXCEPT ![p] = "upsert"]
                ELSE /\ pc' = [pc EXCEPT ![p] = "failed"]
                     /\ out' = [out EXCEPT ![p] = Failed(o, "missing_column")]
                     /\ UNCHANGED frame
    /\ UNCHANGED <<config, runs, requests, store, snap, resp, loop, client>>

\* upsert_mongo: the MONGO_URI check and MongoClient(...)
UpsertOpen(p) ==
    /\ pc[p] = "upsert"
    /\ IF Truthy(env["MONGO_URI"])
       THEN /\ client' = [client EXCEPT ![p] = "open"]
            /\ pc' = [pc EXCEPT ![p] = "index"]
            /\ out' = out
       ELSE /\ pc' = [pc EXCEPT ![p] = "failed"]
            /\ out' = [out EXCEPT ![p] = Failed(@, "config")]
            /\ client' = client
    /\ UNCHANGED <<config, runs, requests, store, snap, resp, frame, loop>>

\* col.create_index(...) succeeds; the counters are initialised
CreateIndex(p) ==
    /\ pc[p] = "index"
    /\ indexes' = indexes \cup {CompositeIndex}
    /\ cnt' = [cnt EXCEPT ![p] = [ZeroCnt EXCEPT !.total_rows = Len(df[p].rows)]]
    /\ cursor' = [cursor EXCEPT ![p] = 1]
    /\ ops' = [ops EXCEPT ![p] = <<>>]
    /\ pc' = [pc EXCEPT ![p] = "rows"]
    /\ UNCHANGED <<config, runs, requests, collection, snap, resp, frame, bw,
                   sentLog, dropLog, client, out>>

\* col.create_index(...) raises (the store cannot be reached)
CreateIndexFail(p) ==
    /\ pc[p] = "index"
    /\ pc' = [pc EXCEPT ![p] = "failed"]
    /\ out' = [out EXCEPT ![p] = Failed(@, "index")]
    /\ UNCHANGED <<config, runs, requests, store, snap, resp, frame, loop, client>>

\* the for-loop up to the next col.bulk_write call, or past its end to the
\* final "if ops:" flush
RowLoop(p) ==
    /\ pc[p] = "rows"
    /\ LET s == ScanRows(df[p].rows, cursor[p], ops[p], cnt[p].skipped, dropLog[p])
       IN  /\ cursor' = [cursor EXCEPT ![p] = s.cursor]
           /\ ops' = [ops EXCEPT ![p] = s.ops]
           /\ cnt' = [cnt EXCEPT ![p].skipped = s.skipped]
           /\ dropLog' = [dropLog EXCEPT ![p] = s.dropped]
           /\ IF s.ops # <<>>
              THEN /\ pc' = [pc EXCEPT ![p] = "bulk"]
                   /\ sentLog' = [sentLog EXCEPT ![p] = Append(@, s.ops)]
                   /\ bw' = [bw EXCEPT ![p] =
                               [NoBulk EXCEPT !.i = 1, !.phase = "find",
                                              !.final = ~s.flush]]
              ELSE /\ pc' = [pc EXCEPT ![p] = "close"]
                   /\ UNCHANGED <<sentLog, bw>>
    /\ UNCHANGED <<config, runs, requests, store, snap, resp, frame, client, out>>

\* the store looks up the document the current operation's filter matches
BulkFind(p) ==
    /\ pc[p] = "bulk"
    /\ bw[p].phase = "find"
    /\ LET m == MatchSet(collection, ops[p][bw[p].i].filter)
       IN  \E j \in (IF m = {} THEN {0} ELSE m) :
              bw' = [bw EXCEPT ![p].found = j, ![p].phase = "apply"]
    /\ UNCHANGED <<config, runs, requests, store, snap, pc, resp, frame, cursor,
                   ops, cnt, sentLog, dropLog, client, out>>

\* the store replaces the document found, or inserts the replacement; after
\* the last operation bulk_write returns and the counters are added up
BulkApply(p) ==
    /\ pc[p] = "bulk"
    /\ bw[p].phase = "apply"
    /\ LET op == ops[p][bw[p].i]
           dup == DuplicateKey(collection, indexes, op.replacement)
           \* a rejected insert is retried as a replacement of the document in the way
           j == IF bw[p].found # 0 THEN bw[p].found
                ELSE IF op.upsert /\ dup
                THEN CHOOSE k \in DOMAIN collection :
                        \A c \in must_cols : collection[k][c] = op.replacement[c]
                ELSE 0
           newdoc == IF j # 0 THEN WithId(op.replacement, collection[j]["_id"])
                     ELSE WithId(op.replacement, Len(collection) + 1)
           b == [bw[p] EXCEPT
                   !.matched = @ + (IF j # 0 THEN 1 ELSE 0),
                   !.modified = @ + (IF j # 0 /\ collection[j] # newdoc THEN 1 ELSE 0),
                   !.upserted = @ + (IF j = 0 /\ op.upsert THEN 1 ELSE 0)]
       IN  /\ collection' = IF j # 0 THEN [collection EXCEPT ![j] = newdoc]
                            ELSE IF op.upsert THEN Append(collection, newdoc)
                            ELSE collection
           /\ IF bw[p].i < Len(ops[p])
              THEN /\ bw' = [bw EXCEPT ![p] = [b EXCEPT !.i = @ + 1, !.found = 0,
                                                        !.phase = "find"]]
                   /\ UNCHANGED <<pc, cnt, ops>>
              ELSE /\ bw' = [bw EXCEPT ![p] = NoBulk]
                   /\ cnt' = [cnt EXCEPT
                                ![p].sent_ops = @ + Len(ops[p]),
                                ![p].matched = @ + b.matched,
                                ![p].modified = @ + b.modified,
                                ![p].upserted = @ + b.upserted]
                   /\ IF bw[p].final
                      THEN /\ pc' = [pc EXCEPT ![p] = "close"]
                           /\ ops' = ops
                      ELSE /\ pc' = [pc EXCEPT ![p] = "rows"]
                           /\ ops' = [ops EXCEPT ![p] = <<>>]
    /\ UNCHANGED <<config, runs, requests, indexes, snap, resp, frame, cursor,
                   sentLog, dropLog, client, out>>

\* col.bulk_write raises a hard error (connectivity lost during the batch)
BulkWriteFail(p) ==
    /\ pc[p] = "bulk"
    /\ pc' = [pc EXCEPT ![p] = "failed"]
    /\ out' = [out EXCEPT ![p] = Failed(@, "bulk_write")]
    /\ UNCHANGED <<config, runs, requests, store, snap, resp, frame, loop, client>>

\* client.close(), the result prints, main returns, sys.exit(0)
Close(p) ==
    /\ pc[p] = "close"
    /\ client' = [client EXCEPT ![p] = "closed"]
    /\ out' = [out EXCEPT ![p].result =
                 [printed |-> TRUE, total_rows |-> cnt[p].total_rows,
                  sent_ops |-> cnt[p].sent_ops, skipped |-> cnt[p].skipped,
                  matched |-> cnt[p].matched, modified |-> cnt[p].modified,
                  upserted |-> cnt[p].upserted],
                              ![p].exit = 0]
    /\ pc' = [pc EXCEPT ![p] = "done"]
    /\ snap' = IF snap.taken THEN snap
               ELSE [taken |-> TRUE, run |-> runs, docs |-> StripAll(collection)]
    /\ UNCHANGED <<config, runs, requests, store, resp, frame, loop>>

Next ==
    \/ \E p \in procs : Main(p)
    \/ \E p \in procs : FetchHtml(p)
    \/ \E p \in procs : Transform(p)
    \/ \E p \in procs : UpsertOpen(p)
    \/ \E p \in procs : CreateIndex(p)
    \/ \E p \in procs : CreateIndexFail(p)
    \/ \E p \in procs : RowLoop(p)
    \/ \E p \in procs : BulkFind(p)
    \/ \E p \in procs : BulkApply(p)
    \/ \E p \in procs : BulkWriteFail(p)
    \/ \E p \in procs : Close(p)

Spec == Init /\ [][Next]_vars

SpecConc == InitConc /\ [][Next]_vars

(***************************************************************************)
(* Vocabulary of the properties                                            *)
(***************************************************************************)
\* all three composite key fields present: neither missing nor empty
KeyComplete(r) ==
    /\ r["receipt_no"] \notin {NaN, None, ""}
    /\ r["truck_no"] \notin {NaN, None, ""}
    /\ r["garage_entry_at"] # NaT

\* the operations of a sequence of batches, in the order they were sent
RECURSIVE Flatten(_)
Flatten(batches) ==
    IF batches = <<>> THEN <<>> ELSE Head(batches) \o Flatten(Tail(batches))

KeysIn(rows) == {KeyOf(rows[i]) : i \in DOMAIN rows}

\* the last row of rows that has key k
LastWith(rows, k) ==
    rows[CHOOSE i \in DOMAIN rows :
            /\ KeyOf(rows[i]) = k
            /\ \A j \in DOMAIN rows : j > i => KeyOf(rows[j]) # k]

IsSubsequence(a, b) ==
    \E pick \in SUBSET DOMAIN b :
        /\ Cardinality(pick) = Len(a)
        /\ \A i \in DOMAIN a :
              \E j \in pick : /\ Cardinality({k \in pick : k <= j}) = i
                              /\ a[i] = b[j]

(***************************************************************************)
(* Properties                                                              *)
(***************************************************************************)
\* C1 (idempotence): once a run has completed successfully, every later run
\* on the same source data leaves the collection with the same documents
\* (same count, same _id, same values of every field but etl_loaded_at), and
\* a later run that completes reports no new insert: all its operations
\* matched an existing document.
C1_Idempotence ==
    snap.taken =>
        /\ StripAll(collection) = snap.docs
        /\ \A p \in procs :
              (runs > snap.run /\ pc[p] = "done") =>
                  /\ out[p].result.upserted = 0
                  /\ out[p].result.matched = out[p].result.sent_ops

\* a second run completed after a first one that had written two documents
C1_Witness ==
    /\ snap.taken
    /\ runs > snap.run
    /\ pc[1] = "done"
    /\ Len(collection) >= 2
    /\ out[1].result.sent_ops >= 2
    /\ \E j \in DOMAIN collection : collection[j]["etl_loaded_at"] > snap.run

\* C2 (unique composite key): the target collection never holds two
\* documents with the same (receipt_no, truck_no, garage_entry_at), whatever
\* the interleaving of two overlapping runs.
C2_NoDuplicateKeys ==
    \A i, j \in DOMAIN collection :
        i # j => KeyOf(collection[i]) # KeyOf(collection[j])

\* C3 (key completeness): every record handed to bulk_write has its three
\* key fields present and non-empty, and every record the key validation
\* dropped lacks at least one of them.
C3_KeyCompleteness ==
    \A p \in procs :
        /\ \A b \in DOMAIN sentLog[p] : \A i \in DOMAIN sentLog[p][b] :
              KeyComplete(sentLog[p][b][i].replacement)
        /\ \A i \in DOMAIN dropLog[p] : ~KeyComplete(dropLog[p][i])

\* a completed run that sent some records and dropped others, one of them
\* for an unparseable date and one for an empty cell
C3_Witness ==
    /\ pc[1] = "done"
    /\ Len(sentLog[1]) >= 1
    /\ \E i \in DOMAIN dropLog[1] : dropLog[1][i]["garage_entry_at"] = NaT
    /\ \E i \in DOMAIN dropLog[1] : dropLog[1][i]["receipt_no"] = NaN

\* C4 (dedup keeps the last): of the rows of one run that share a composite
\* key exactly one survives drop_duplicates and it is the last of them in
\* input order; the survivors keep their input order; and in a run that
\* completes, each complete key is written by exactly one operation, whose
\* record is the last input row with that key.
C4_DedupKeepsLast ==
    \A p \in procs :
        LET T == fetched[p].rows
            D == df[p].rows
            F == Flatten(sentLog[p])
        IN  /\ pc[p] = "upsert" =>
                  /\ IsSubsequence(D, T)
                  /\ \A k \in KeysIn(T) :
                        /\ Cardinality({i \in DOMAIN D : KeyOf(D[i]) = k}) = 1
                        /\ \E i \in DOMAIN D : D[i] = LastWith(T, k)
            /\ pc[p] = "done" =>
                  \A k \in KeysIn(T) :
                      KeyComplete(LastWith(T, k)) =>
                          /\ Cardinality({i \in DOMAIN F : F[i].filter = k}) = 1
                          /\ \E i \in DOMAIN F :
                                Strip(F[i].replacement) = LastWith(T, k)

\* a completed run whose table had two different rows with one complete key
\* and a row with another key
C4_Witness ==
    /\ pc[1] = "done"
    /\ \E i, j \in DOMAIN fetched[1].rows :
          /\ i < j
          /\ KeyOf(fetched[1].rows[i]) = KeyOf(fetched[1].rows[j])
          /\ fetched[1].rows[i] # fetched[1].rows[j]
          /\ KeyComplete(fetched[1].rows[i])
    /\ Len(df[1].rows) >= 2
    /\ Len(df[1].rows) < Len(fetched[1].rows)

\* C5 (session expiry): a response whose body holds the login-page markers
\* makes fetch_html fail with the session-expired error, whatever the HTTP
\* status of the response.
C5_LoginPageIsSessionExpired ==
    \A p \in procs :
        (/\ pc[p] \notin {"idle", "fetch"}
         /\ resp[p] \notin {NoResp, NetErr}
         /\ LoginGuard(resp[p].body))
            => (pc[p] = "failed" /\ out[p].failed = "session_expired")

\* C6 (partial-failure report): when a bulk write raises after earlier
\* batches were committed, the failure is reported together with the
\* counters of those batches.
C6_FailureReportsCommitted ==
    \A p \in procs :
        (pc[p] = "failed" /\ out[p].failed = "bulk_write" /\ cnt[p].sent_ops >= 1) =>
            /\ out[p].result.printed
            /\ out[p].result.sent_ops = cnt[p].sent_ops
            /\ out[p].result.matched = cnt[p].matched
            /\ out[p].result.modified = cnt[p].modified
            /\ out[p].result.upserted = cnt[p].upserted

\* C7 (connection release): no run ends, in success or in failure, with the
\* store connection it opened still open.
C7_NoOpenClientAtExit ==
    \A p \in procs : pc[p] \in Terminal => client[p] # "open"

\* C8 (skipped count): a run that completes reports as skipped the number
\* of rows of the fetched table with an incomplete composite key.
C8_SkippedCountsIneligible ==
    \A p \in procs :
        pc[p] = "done" =>
            out[p].result.skipped =
                Cardinality({i \in DOMAIN fetched[p].rows :
                                ~KeyComplete(fetched[p].rows[i])})

\* C9 (configuration error): with one of TIRE_EXPORT_URL, MENA_SESSION,
\* MONGO_URI absent or empty, every run ends in failure with exit code 1
\* and nothing was done: no HTTP request, no client, no index, no write.
C9_ConfigErrorBeforeWork ==
    (\E n \in EnvNames : env[n] = None \/ env[n] = "") =>
        /\ requests = 0
        /\ indexes = {}
        /\ collection = <<>>
        /\ \A p \in procs :
              /\ client[p] = "none"
              /\ sentLog[p] = <<>>
              /\ pc[p] \in {"idle", "failed"}
              /\ pc[p] = "failed" => (out[p].exit = 1 /\ out[p].failed = "config")

\* a run that failed because MONGO_URI is the empty string
C9_Witness ==
    /\ env["MONGO_URI"] = ""
    /\ pc[1] = "failed"
    /\ out[1].exit = 1

\* C10 (batching): the batches handed to bulk_write hold, in input order,
\* one replace-or-insert operation per eligible record of df, filtered by
\* the record's own key; each batch is non-empty and no longer than
\* BATCH_SIZE, each but the last has exactly BATCH_SIZE operations; a run
\* that completes has sent every eligible record, reports their number as
\* "Ops sent", and total rows = skipped + ops sent.
C10_Batching ==
    \A p \in procs :
        LET B == sentLog[p]
            E == SelectSeq(df[p].rows, KeyComplete)
            F == Flatten(B)
        IN  /\ \A b \in DOMAIN B :
                  /\ Len(B[b]) >= 1
                  /\ Len(B[b]) <= batchSize
                  /\ b < Len(B) => Len(B[b]) = batchSize
            /\ Len(F) <= Len(E)
            /\ \A i \in DOMAIN F :
                  /\ F[i].upsert
                  /\ F[i].filter = KeyOf(E[i])
                  /\ Strip(F[i].replacement) = E[i]
            /\ pc[p] = "done" =>
                  /\ Len(F) = Len(E)
                  /\ out[p].result.sent_ops = Len(E)
                  /\ out[p].result.total_rows =
                        out[p].result.skipped + out[p].result.sent_ops

\* a completed run that sent a full batch and then a shorter last one
C10_Witness ==
    /\ pc[1] = "done"
    /\ Len(sentLog[1]) >= 2
    /\ Len(sentLog[1][Len(sentLog[1])]) < batchSize
    /\ out[1].result.total_rows = Len(Flatten(sentLog[1]))

=============================================================================
